---- MODULE Spec2Model ----
(***************************************************************************)
(* Model of boostgo/trace: the package-level (global registry) API of      *)
(* trace.go and the per-instance Tracer of tracer.go.                      *)
(*                                                                         *)
(* A carrier (context.Context) is the chain of WithValue layers, oldest    *)
(* first.  A context key is an interface value: it carries its dynamic Go  *)
(* type (string or trace.Key) and two keys are equal only when both the    *)
(* type and the text agree.  A stored value carries its dynamic type too.  *)
(***************************************************************************)
EXTENDS Integers, Sequences, FiniteSets, TLC

VARIABLES _master, _keys, _uniqueKeys, _generator,
          tracer, ctx, last, firstKeys, firstTracerKeys,
          wpc, warg, rpc, robs

vars == <<_master, _keys, _uniqueKeys, _generator,
          tracer, ctx, last, firstKeys, firstTracerKeys,
          wpc, warg, rpc, robs>>

pkgVars == <<_master, _keys, _uniqueKeys, _generator, firstKeys>>
tracerVars == <<tracer, firstTracerKeys>>
concVars == <<wpc, warg, rpc, robs>>

(***************************************************************************)
(* Bounds of the model.                                                    *)
(***************************************************************************)
\* layers a caller stamps on a carrier before handing it to the package
MaxCallerLayers == 1
\* total layers of one carrier
MaxLayers == 3
\* RegisterProtocol calls one concurrent writer makes
MaxWriterCalls == 2

(***************************************************************************)
(* Labels.                                                                 *)
(***************************************************************************)
ProtocolAny == "any"
defaultKey == "trace_id"
tracerDefaultKey == "bgo_trace_id"

Protocols == {ProtocolAny, "http"}
PkgKeyNames == {defaultKey, "X-Trace-Id"}
TracerKeyNames == {tracerDefaultKey, "X-Trace-Id"}

\* the generators a process can install: the default uuid generator and a
\* custom one that returns the empty string
Generators == {"uuid", "blank"}

GeneratorOutputs(g) ==
    IF g = "uuid" THEN {"uuid-1", "uuid-2"} ELSE {""}

(***************************************************************************)
(* Values and keys of a carrier.                                           *)
(***************************************************************************)
Nil == [t |-> "nil", s |-> "", n |-> 0]
StrVal(s) == [t |-> "string", s |-> s, n |-> 0]
IntVal(n) == [t |-> "int", s |-> "", n |-> n]

\* key.String(): a context key of dynamic type string
StringKey(name) == [t |-> "string", name |-> name]
\* a context key of dynamic type trace.Key
TypedKey(name) == [t |-> "Key", name |-> name]

Background == << >>

WithValue(c, k, v) == Append(c, [key |-> k, val |-> v])

\* ctx.Value(k): the innermost layer whose key equals k (type and text)
RECURSIVE Value(_, _)
Value(c, k) ==
    IF c = << >> THEN Nil
    ELSE IF c[Len(c)].key = k THEN c[Len(c)].val
    ELSE Value(SubSeq(c, 1, Len(c) - 1), k)

Digit(d) == CASE d = 0 -> "0" [] d = 1 -> "1" [] d = 2 -> "2" [] d = 3 -> "3"
              [] d = 4 -> "4" [] d = 5 -> "5" [] d = 6 -> "6" [] d = 7 -> "7"
              [] d = 8 -> "8" [] d = 9 -> "9"

RECURSIVE Itoa(_)
Itoa(n) == IF n < 10 THEN Digit(n) ELSE Itoa(n \div 10) \o Digit(n % 10)

\* convert.String(v): nil gives "", a string is itself, an integer is its
\* decimal text
ConvertString(v) ==
    IF v.t = "nil" THEN ""
    ELSE IF v.t = "string" THEN v.s
    ELSE Itoa(v.n)

(***************************************************************************)
(* Map helpers.                                                            *)
(***************************************************************************)
Range(f) == {f[x] : x \in DOMAIN f}

MapStore(m, k, v) == [x \in DOMAIN m \cup {k} |-> IF x = k THEN v ELSE m[x]]

\* the orders in which a Go map (or AsyncMap.Each) can visit the members of S
Orders(S) ==
    {f \in [1..Cardinality(S) -> S] :
        \A i, j \in 1..Cardinality(S) : i # j => f[i] # f[j]}

NotFound == [id |-> "", ok |-> FALSE]
Found(id) == [id |-> id, ok |-> TRUE]

(***************************************************************************)
(* trace.go: the package-level API.                                        *)
(***************************************************************************)
\* RegisterProtocol that stores even when the protocol is registered
RegisterProtocolOverwrite(reg, protocol, key) ==
    [keys |-> MapStore(reg.keys, protocol, key),
     uniq |-> reg.uniq \cup {key}]

\* RegisterProtocol on the registry reg = [keys, uniq], run without
\* interruption
RegisterProtocol(reg, protocol, key) ==
    IF protocol \in DOMAIN reg.keys THEN reg
    ELSE [keys |-> MapStore(reg.keys, protocol, key),
          uniq |-> reg.uniq \cup {key}]

\* TryGet looking a key up as a trace.Key instead of as key.String()
RECURSIVE TryGetScanTypedKey(_, _, _, _)
TryGetScanTypedKey(c, keys, order, i) ==
    IF i > Len(order) THEN NotFound
    ELSE LET tID == Value(c, TypedKey(keys[order[i]]))
         IN  IF tID = Nil THEN TryGetScanTypedKey(c, keys, order, i + 1)
             ELSE LET convertedTraceID == ConvertString(tID)
                  IN  IF convertedTraceID = ""
                      THEN TryGetScanTypedKey(c, keys, order, i + 1)
                      ELSE Found(convertedTraceID)

\* the callback of TryGet over the protocols in the order Each visits them
RECURSIVE TryGetScan(_, _, _, _)
TryGetScan(c, keys, order, i) ==
    IF i > Len(order) THEN NotFound
    ELSE LET tID == Value(c, StringKey(keys[order[i]]))
         IN  IF tID = Nil THEN TryGetScan(c, keys, order, i + 1)
             ELSE LET convertedTraceID == ConvertString(tID)
                  IN  IF convertedTraceID = ""
                      THEN TryGetScan(c, keys, order, i + 1)
                      ELSE Found(convertedTraceID)

TryGet(c, keys, order) == TryGetScan(c, keys, order, 1)

Get(c, keys, order) == TryGet(c, keys, order).id

TryGetByProtocol(c, keys, protocol) ==
    IF protocol \notin DOMAIN keys THEN NotFound
    ELSE LET traceID == Value(c, StringKey(keys[protocol]))
         IN  IF traceID = Nil THEN NotFound
             ELSE IF traceID.t # "string" THEN NotFound
             ELSE Found(traceID.s)

\* context.WithValue under each key of ks in turn
RECURSIVE WithValues(_, _, _)
WithValues(c, ks, v) ==
    IF ks = << >> THEN c
    ELSE WithValues(WithValue(c, StringKey(Head(ks)), v), Tail(ks), v)

\* Set whose Each callback stops after the first key
SetFirstKeyOnly(c, keys, scanOrder, eachOrder, traceID) ==
    IF TryGet(c, keys, scanOrder).ok THEN [ctx |-> c, gen |-> 0]
    ELSE [ctx |-> WithValues(c, SubSeq(eachOrder, 1, 1), StrVal(traceID)),
          gen |-> 1]

\* Set: scanOrder is the order TryGet visits _keys, eachOrder the order
\* Each visits _uniqueKeys, traceID what the generator returns if invoked.
\* gen counts the generator's invocations.
Set(c, keys, scanOrder, eachOrder, traceID) ==
    IF TryGet(c, keys, scanOrder).ok THEN [ctx |-> c, gen |-> 0]
    ELSE [ctx |-> WithValues(c, eachOrder, StrVal(traceID)), gen |-> 1]

\* SetID storing under the trace.Key itself instead of key.String()
SetIDTypedKey(c, keys, scanOrder, eachOrder, id) ==
    IF TryGet(c, keys, scanOrder).ok THEN c
    ELSE c \o [i \in 1..Len(eachOrder) |->
                  [key |-> TypedKey(keys[eachOrder[i]]), val |-> StrVal(id)]]

\* SetID: writes under the key of every protocol, in the order Each visits
\* the protocols
SetID(c, keys, scanOrder, eachOrder, id) ==
    IF TryGet(c, keys, scanOrder).ok THEN c
    ELSE WithValues(c, [i \in 1..Len(eachOrder) |-> keys[eachOrder[i]]],
                    StrVal(id))

\* Keys: the unique keys in the order Each visits them
Keys(eachOrder) == eachOrder

(***************************************************************************)
(* tracer.go: the per-instance Tracer, t = [master, keys, uniqueKeys,      *)
(* generator].                                                             *)
(***************************************************************************)
\* NewTracer(key ...string): key is the (possibly empty) argument list
NewTracer(key) ==
    LET anyKey == IF Len(key) > 0 THEN key[1] ELSE tracerDefaultKey
    IN  [master |-> FALSE,
         keys |-> (ProtocolAny :> anyKey),
         uniqueKeys |-> {anyKey},
         generator |-> "uuid"]

TracerRegisterProtocol(t, protocol, key) ==
    IF protocol \in DOMAIN t.keys THEN t
    ELSE [t EXCEPT !.uniqueKeys = @ \cup {key},
                   !.keys = MapStore(@, protocol, key)]

\* the loop of Tracer.TryGet over tracer.keys in the order range visits
\* them, from the i-th on; the lookup key is the trace.Key itself, not
\* key.String(), and every path through the loop body returns
TracerTryGetScan(t, c, order, i) ==
    IF i > Len(order) THEN NotFound
    ELSE LET traceID == Value(c, TypedKey(t.keys[order[i]]))
         IN  IF traceID = Nil THEN NotFound
             ELSE IF traceID.t # "string" THEN NotFound
             ELSE Found(traceID.s)

TracerTryGet(t, c, order) == TracerTryGetScan(t, c, order, 1)

TracerGet(t, c, order) == TracerTryGet(t, c, order).id

TracerTryGetByProtocol(t, c, protocol) ==
    IF protocol \notin DOMAIN t.keys THEN NotFound
    ELSE LET traceID == Value(c, StringKey(t.keys[protocol]))
         IN  IF traceID = Nil THEN NotFound
             ELSE IF traceID.t # "string" THEN NotFound
             ELSE Found(traceID.s)

\* Tracer.Set that ignores the master flag, as the package-level Set does
TracerSetIgnoringMaster(t, c, scanOrder, eachOrder, traceID) ==
    IF TracerTryGet(t, c, scanOrder).ok THEN [ctx |-> c, gen |-> 0]
    ELSE [ctx |-> WithValues(c, eachOrder, StrVal(traceID)), gen |-> 1]

TracerSet(t, c, scanOrder, eachOrder, traceID) ==
    IF ~t.master THEN [ctx |-> c, gen |-> 0]
    ELSE IF TracerTryGet(t, c, scanOrder).ok THEN [ctx |-> c, gen |-> 0]
    ELSE [ctx |-> WithValues(c, eachOrder, StrVal(traceID)), gen |-> 1]

(***************************************************************************)
(* The record of the last call: its name and what it returned; for Set and *)
(* SetID also the carrier it was given, the generator invocations it made, *)
(* and whether the call before it was the same operation (afterSet) with   *)
(* the generator invocations of that call (prevGen).                       *)
(***************************************************************************)
Rec(op, id, ok, ks, p) ==
    [op |-> op, afterSet |-> FALSE, in |-> Background, gen |-> 0,
     prevGen |-> 0, id |-> id, ok |-> ok, keys |-> ks, p |-> p]

SetRec(op, in, gen, id) ==
    [op |-> op, afterSet |-> last.op = op, in |-> in, gen |-> gen,
     prevGen |-> IF last.op = op THEN last.gen ELSE 0, id |-> id,
     ok |-> FALSE, keys |-> << >>, p |-> ""]

NoCall == Rec("init", "", FALSE, << >>, "")

\* what a caller may already have put on the carrier it hands over: an
\* identifier received from upstream or an integer under a key of type
\* string, or an identifier under a key of type trace.Key
CallerLayers(names) ==
    {[key |-> StringKey(k), val |-> v] :
        k \in names, v \in {StrVal("up-1"), IntVal(42)}}
    \cup {[key |-> TypedKey(k), val |-> StrVal("up-1")] : k \in names}

Writers == {"w1", "w2"}

InitWith(key) ==
    /\ _master = FALSE
    /\ _keys = (ProtocolAny :> defaultKey)
    /\ _uniqueKeys = {defaultKey}
    /\ _generator = "uuid"
    /\ firstKeys = (ProtocolAny :> defaultKey)
    /\ tracer = NewTracer(key)
    /\ firstTracerKeys = tracer.keys
    /\ ctx = Background
    /\ last = NoCall
    /\ wpc = [w \in Writers |-> "idle"]
    /\ warg = [w \in Writers |-> [protocol |-> "", key |-> "", calls |-> 0]]
    /\ rpc = "idle"
    /\ robs = [seen |-> FALSE, uniq |-> {}, mapped |-> {}]

\* after package init() and NewTracer()
Init == InitWith(<< >>)

\* the argument lists NewTracer is called with
NewTracerArgs == {<< >>} \cup {<<k>> : k \in TracerKeyNames}

\* after package init() and NewTracer() or NewTracer(key)
InitTracer == \E key \in NewTracerArgs : InitWith(key)

(***************************************************************************)
(* The caller's side of the carrier contract.                              *)
(***************************************************************************)
NewCarrier ==
    /\ ctx' = Background
    /\ last' = Rec("NewCarrier", "", FALSE, << >>, "")
    /\ UNCHANGED <<pkgVars, tracerVars, concVars>>

CallerWithValue(names) ==
    /\ Len(ctx) < MaxCallerLayers
    /\ \E l \in CallerLayers(names) : ctx' = WithValue(ctx, l.key, l.val)
    /\ last' = Rec("WithValue", "", FALSE, << >>, "")
    /\ UNCHANGED <<pkgVars, tracerVars, concVars>>

PkgCallerWithValue == CallerWithValue(PkgKeyNames)

TracerCallerWithValue == CallerWithValue(TracerKeyNames)

(***************************************************************************)
(* Calls of the package-level API, one at a time.                          *)
(***************************************************************************)
CallIAmMaster ==
    /\ \E master \in BOOLEAN : _master' = master
    /\ last' = Rec("IAmMaster", "", FALSE, << >>, "")
    /\ UNCHANGED <<_keys, _uniqueKeys, _generator, firstKeys, ctx>>
    /\ UNCHANGED <<tracerVars, concVars>>

\* firstKeys remembers the key of each protocol's first registration
CallRegisterProtocol ==
    /\ \E protocol \in Protocols, key \in PkgKeyNames :
          LET reg == RegisterProtocol([keys |-> _keys, uniq |-> _uniqueKeys],
                                      protocol, key)
          IN  /\ _keys' = reg.keys
              /\ _uniqueKeys' = reg.uniq
              /\ firstKeys' = IF protocol \in DOMAIN firstKeys THEN firstKeys
                              ELSE MapStore(firstKeys, protocol, key)
              /\ last' = Rec("RegisterProtocol", key,
                             protocol \in DOMAIN firstKeys, << >>, protocol)
    /\ UNCHANGED <<_master, _generator, ctx>>
    /\ UNCHANGED <<tracerVars, concVars>>

CallSetGenerator ==
    /\ \E generator \in Generators : _generator' = generator
    /\ last' = Rec("SetGenerator", "", FALSE, << >>, "")
    /\ UNCHANGED <<_master, _keys, _uniqueKeys, firstKeys, ctx>>
    /\ UNCHANGED <<tracerVars, concVars>>

CallSet ==
    /\ \E scanOrder \in Orders(DOMAIN _keys), eachOrder \in Orders(_uniqueKeys),
          traceID \in GeneratorOutputs(_generator) :
          LET r == Set(ctx, _keys, scanOrder, eachOrder, traceID)
          IN  /\ Len(r.ctx) <= MaxLayers
              /\ ctx' = r.ctx
              /\ last' = SetRec("Set", ctx, r.gen,
                                IF r.gen = 1 THEN traceID ELSE "")
    /\ UNCHANGED <<pkgVars, tracerVars, concVars>>

CallSetID ==
    /\ \E scanOrder \in Orders(DOMAIN _keys), eachOrder \in Orders(DOMAIN _keys),
          id \in {"req-7", ""} :
          LET c == SetID(ctx, _keys, scanOrder, eachOrder, id)
          IN  /\ Len(c) <= MaxLayers
              /\ ctx' = c
              /\ last' = SetRec("SetID", ctx, 0, id)
    /\ UNCHANGED <<pkgVars, tracerVars, concVars>>

CallTryGet ==
    /\ \E order \in Orders(DOMAIN _keys) :
          LET r == TryGet(ctx, _keys, order)
          IN  last' = Rec("TryGet", r.id, r.ok, << >>, "")
    /\ UNCHANGED <<pkgVars, ctx, tracerVars, concVars>>

CallGet ==
    /\ \E order \in Orders(DOMAIN _keys) :
          last' = Rec("Get", Get(ctx, _keys, order), FALSE, << >>, "")
    /\ UNCHANGED <<pkgVars, ctx, tracerVars, concVars>>

CallTryGetByProtocol ==
    /\ \E protocol \in Protocols :
          LET r == TryGetByProtocol(ctx, _keys, protocol)
          IN  last' = Rec("TryGetByProtocol", r.id, r.ok, << >>, protocol)
    /\ UNCHANGED <<pkgVars, ctx, tracerVars, concVars>>

CallKeys ==
    /\ \E eachOrder \in Orders(_uniqueKeys) :
          last' = Rec("Keys", "", FALSE, Keys(eachOrder), "")
    /\ UNCHANGED <<pkgVars, ctx, tracerVars, concVars>>

NextPkg ==
    \/ NewCarrier
    \/ PkgCallerWithValue
    \/ CallIAmMaster
    \/ CallRegisterProtocol
    \/ CallSetGenerator
    \/ CallSet
    \/ CallSetID
    \/ CallTryGet
    \/ CallGet
    \/ CallTryGetByProtocol
    \/ CallKeys

SpecPkg == Init /\ [][NextPkg]_vars

(***************************************************************************)
(* Calls on one Tracer instance, one at a time.  CallNewTracer replaces the *)
(* instance and is part of SpecRegister only; SpecTracer follows one       *)
(* instance from its construction.                                         *)
(***************************************************************************)
CallNewTracer ==
    /\ \E key \in NewTracerArgs :
          /\ tracer' = NewTracer(key)
          /\ firstTracerKeys' = tracer'.keys
    /\ last' = Rec("NewTracer", "", FALSE, << >>, "")
    /\ UNCHANGED <<pkgVars, ctx, concVars>>

CallTracerIAmMaster ==
    /\ \E master \in BOOLEAN : tracer' = [tracer EXCEPT !.master = master]
    /\ last' = Rec("Tracer.IAmMaster", "", FALSE, << >>, "")
    /\ UNCHANGED <<pkgVars, firstTracerKeys, ctx, concVars>>

CallTracerRegisterProtocol ==
    /\ \E protocol \in Protocols, key \in TracerKeyNames :
          /\ tracer' = TracerRegisterProtocol(tracer, protocol, key)
          /\ firstTracerKeys' =
                IF protocol \in DOMAIN firstTracerKeys THEN firstTracerKeys
                ELSE MapStore(firstTracerKeys, protocol, key)
          /\ last' = Rec("Tracer.RegisterProtocol", key,
                         protocol \in DOMAIN firstTracerKeys, << >>, protocol)
    /\ UNCHANGED <<pkgVars, ctx, concVars>>

CallTracerSetGenerator ==
    /\ \E generator \in Generators :
          tracer' = [tracer EXCEPT !.generator = generator]
    /\ last' = Rec("Tracer.SetGenerator", "", FALSE, << >>, "")
    /\ UNCHANGED <<pkgVars, firstTracerKeys, ctx, concVars>>

CallTracerSet ==
    /\ \E scanOrder \in Orders(DOMAIN tracer.keys),
          eachOrder \in Orders(tracer.uniqueKeys),
          traceID \in GeneratorOutputs(tracer.generator) :
          LET r == TracerSet(tracer, ctx, scanOrder, eachOrder, traceID)
          IN  /\ Len(r.ctx) <= MaxLayers
              /\ ctx' = r.ctx
              /\ last' = SetRec("Tracer.Set", ctx, r.gen,
                                IF r.gen = 1 THEN traceID ELSE "")
    /\ UNCHANGED <<pkgVars, tracerVars, concVars>>

CallTracerTryGet ==
    /\ \E order \in Orders(DOMAIN tracer.keys) :
          LET r == TracerTryGet(tracer, ctx, order)
          IN  last' = Rec("Tracer.TryGet", r.id, r.ok, << >>, "")
    /\ UNCHANGED <<pkgVars, tracerVars, ctx, concVars>>

CallTracerGet ==
    /\ \E order \in Orders(DOMAIN tracer.keys) :
          last' = Rec("Tracer.Get", TracerGet(tracer, ctx, order), FALSE,
                      << >>, "")
    /\ UNCHANGED <<pkgVars, tracerVars, ctx, concVars>>

CallTracerTryGetByProtocol ==
    /\ \E protocol \in Protocols :
          LET r == TracerTryGetByProtocol(tracer, ctx, protocol)
          IN  last' = Rec("Tracer.TryGetByProtocol", r.id, r.ok, << >>,
                          protocol)
    /\ UNCHANGED <<pkgVars, tracerVars, ctx, concVars>>

NextTracer ==
    \/ NewCarrier
    \/ TracerCallerWithValue
    \/ CallTracerIAmMaster
    \/ CallTracerRegisterProtocol
    \/ CallTracerSetGenerator
    \/ CallTracerSet
    \/ CallTracerTryGet
    \/ CallTracerGet
    \/ CallTracerTryGetByProtocol

SpecTracer == InitTracer /\ [][NextTracer]_vars

(***************************************************************************)
(* Registration alone, in both variants.                                   *)
(***************************************************************************)
NextRegister ==
    \/ CallRegisterProtocol
    \/ CallNewTracer
    \/ CallTracerRegisterProtocol

SpecRegister == Init /\ [][NextRegister]_vars

(***************************************************************************)
(* The package-level registry under concurrency.  RegisterProtocol is      *)
(* three map operations, each atomic on its own map: _keys.Load,           *)
(* _keys.Store, _uniqueKeys.Store.  Keys is two: _keys.Len and             *)
(* _uniqueKeys.Each.                                                       *)
(***************************************************************************)
\* RegisterProtocol, line 76: the Load and the early return
WLoad(w) ==
    /\ wpc[w] = "idle"
    /\ warg[w].calls < MaxWriterCalls
    /\ \E protocol \in Protocols, key \in PkgKeyNames :
          /\ warg' = [warg EXCEPT ![w] = [protocol |-> protocol, key |-> key,
                                          calls |-> @.calls + 1]]
          /\ wpc' = [wpc EXCEPT ![w] = IF protocol \in DOMAIN _keys
                                       THEN "idle" ELSE "store_keys"]
    /\ UNCHANGED <<pkgVars, tracerVars, ctx, last, rpc, robs>>

\* RegisterProtocol, line 80
WStoreKeys(w) ==
    /\ wpc[w] = "store_keys"
    /\ _keys' = MapStore(_keys, warg[w].protocol, warg[w].key)
    /\ wpc' = [wpc EXCEPT ![w] = "store_unique"]
    /\ UNCHANGED <<_master, _uniqueKeys, _generator, firstKeys>>
    /\ UNCHANGED <<tracerVars, ctx, last, warg, rpc, robs>>

\* RegisterProtocol, line 81
WStoreUnique(w) ==
    /\ wpc[w] = "store_unique"
    /\ _uniqueKeys' = _uniqueKeys \cup {warg[w].key}
    /\ wpc' = [wpc EXCEPT ![w] = "idle"]
    /\ UNCHANGED <<_master, _keys, _generator, firstKeys>>
    /\ UNCHANGED <<tracerVars, ctx, last, warg, rpc, robs>>

\* Keys, line 196: _keys.Len()
RKeysLen ==
    /\ rpc = "idle"
    /\ rpc' = "each"
    /\ robs' = [robs EXCEPT !.seen = FALSE]
    /\ UNCHANGED <<pkgVars, tracerVars, ctx, last, wpc, warg>>

\* Keys, line 197: _uniqueKeys.Each; robs.uniq is what the reader is handed,
\* robs.mapped the keys the protocols are mapped to at that moment
RKeysEach ==
    /\ rpc = "each"
    /\ rpc' = "idle"
    /\ robs' = [seen |-> TRUE, uniq |-> _uniqueKeys, mapped |-> Range(_keys)]
    /\ UNCHANGED <<pkgVars, tracerVars, ctx, last, wpc, warg>>

NextConc ==
    \/ \E w \in Writers : WLoad(w)
    \/ \E w \in Writers : WStoreKeys(w)
    \/ \E w \in Writers : WStoreUnique(w)
    \/ RKeysLen
    \/ RKeysEach

SpecConc == Init /\ [][NextConc]_vars

(***************************************************************************)
(* Properties.                                                             *)
(***************************************************************************)
\* the generator installed never returns the empty string
NonEmptyGenerator(g) == "" \notin GeneratorOutputs(g)

\* package level: TryGet finds no identifier on c, whatever the scan order
PkgNoIdentifier(c) ==
    \A order \in Orders(DOMAIN _keys) : ~TryGet(c, _keys, order).ok

\* Tracer: c holds nothing under any registered key, in either form of key
TracerEmptyCarrier(c) ==
    \A k \in Range(tracer.keys) \cup tracer.uniqueKeys :
        Value(c, StringKey(k)) = Nil /\ Value(c, TypedKey(k)) = Nil

TwoDistinctKeys(keys) == Cardinality(Range(keys)) >= 2

\* C1: package level, generator returning non-empty strings: a Set that
\* directly follows a Set on its result does not invoke the generator and
\* leaves every registered key with the value the first Set left there.
C1_SetTwice ==
    (last.op = "Set" /\ last.afterSet /\ NonEmptyGenerator(_generator))
    => /\ last.gen = 0
       /\ \A k \in Range(_keys) :
             Value(ctx, StringKey(k)) = Value(last.in, StringKey(k))

\* C1 witness: the first Set generated, the second ran on its result, with
\* two distinct keys registered.
C1_Witness ==
    /\ last.op = "Set" /\ last.afterSet /\ last.prevGen = 1
    /\ NonEmptyGenerator(_generator)
    /\ TwoDistinctKeys(_keys)

\* C2 as stated: package level, for any carrier and any id, Get on the
\* result of SetID returns id.
C2_RoundTripAnyCarrier ==
    last.op = "SetID"
    => \A order \in Orders(DOMAIN _keys) : Get(ctx, _keys, order) = last.id

\* C2 amended: package level, for any carrier on which TryGet finds no
\* identifier and any id, Get on the result of SetID returns id.
C2_RoundTripNoIdentifier ==
    (last.op = "SetID" /\ PkgNoIdentifier(last.in))
    => \A order \in Orders(DOMAIN _keys) : Get(ctx, _keys, order) = last.id

\* C2 witness: SetID wrote a non-empty id on a carrier without identifier,
\* with two distinct keys registered.
C2_Witness ==
    /\ last.op = "SetID" /\ PkgNoIdentifier(last.in)
    /\ last.id = "req-7"
    /\ TwoDistinctKeys(_keys)

\* C3: Tracer, Set on a carrier holding nothing under any registered key:
\* with master=false the carrier comes back unchanged, no protocol finds an
\* identifier and the generator is not invoked; with master=true and a
\* generator returning non-empty strings every registered protocol finds
\* the one generated, non-empty identifier.
C3_MasterGating ==
    (last.op = "Tracer.Set" /\ TracerEmptyCarrier(last.in))
    => IF ~tracer.master
       THEN /\ ctx = last.in
            /\ last.gen = 0
            /\ \A p \in DOMAIN tracer.keys :
                  ~TracerTryGetByProtocol(tracer, ctx, p).ok
       ELSE NonEmptyGenerator(tracer.generator)
            => /\ last.gen = 1
               /\ last.id # ""
               /\ \A p \in DOMAIN tracer.keys :
                     TracerTryGetByProtocol(tracer, ctx, p) = Found(last.id)

\* C3 witness: a master Tracer with two distinct keys has run Set on an
\* empty carrier.
C3_Witness ==
    /\ last.op = "Tracer.Set" /\ TracerEmptyCarrier(last.in)
    /\ tracer.master
    /\ NonEmptyGenerator(tracer.generator)
    /\ TwoDistinctKeys(tracer.keys)

\* C4: Tracer with distinct keys k1 and k2: on a carrier that holds a
\* non-empty string identifier under k2 (stored under key.String(), as
\* Tracer.Set stores it) and nothing under k1, TryGet returns that
\* identifier with found=true in every scan order.
C4_ContinuePastMiss ==
    \A k1, k2 \in Range(tracer.keys) :
        (/\ k1 # k2
         /\ Value(ctx, StringKey(k1)) = Nil
         /\ Value(ctx, TypedKey(k1)) = Nil
         /\ Value(ctx, StringKey(k2)).t = "string"
         /\ Value(ctx, StringKey(k2)).s # "")
        => \A order \in Orders(DOMAIN tracer.keys) :
              TracerTryGet(tracer, ctx, order)
                  = Found(Value(ctx, StringKey(k2)).s)

\* C5: package level: on a carrier whose only values under registered keys
\* are non-strings, TryGet and TryGetByProtocol report not found and Get
\* returns the empty string.
C5_NonStringIsAbsent ==
    (/\ \E k \in Range(_keys) : Value(ctx, StringKey(k)).t = "int"
     /\ \A k \in Range(_keys) : Value(ctx, StringKey(k)).t \in {"int", "nil"})
    => /\ \A order \in Orders(DOMAIN _keys) :
             /\ TryGet(ctx, _keys, order) = NotFound
             /\ Get(ctx, _keys, order) = ""
       /\ \A p \in Protocols : ~TryGetByProtocol(ctx, _keys, p).ok

\* C6: in both variants every protocol stays mapped to the key of its
\* first registration, and the unique keys are the keys of the first
\* registrations: a repeated RegisterProtocol changes neither.
C6_FirstRegistrationWins ==
    /\ _keys = firstKeys
    /\ _uniqueKeys = Range(firstKeys)
    /\ tracer.keys = firstTracerKeys
    /\ tracer.uniqueKeys = Range(firstTracerKeys)

\* C6 witness: a registered protocol has just been registered again under
\* a different key, and the Tracer holds a second protocol.
C6_Witness ==
    /\ last.op = "RegisterProtocol" /\ last.ok
    /\ last.p \in DOMAIN _keys /\ last.id # _keys[last.p]
    /\ "http" \in DOMAIN tracer.keys

\* C7: package level, concurrent RegisterProtocol calls and a reader: the
\* unique keys a reader is handed are exactly the keys the protocols are
\* mapped to at that moment.
C7_ReaderSeesWholeRegistry == robs.seen => robs.uniq = robs.mapped

C9_TracerSetTwice ==
    (/\ last.op = "Tracer.Set" /\ last.afterSet
     /\ tracer.master
     /\ NonEmptyGenerator(tracer.generator))
    => /\ ctx = last.in
       /\ last.gen + last.prevGen <= 1

\* C10: package level: with the master flag false, Set on a carrier with
\* no identifier returns the carrier unchanged and does not invoke the
\* generator.
C10_SetOnlyIfMaster ==
    (last.op = "Set" /\ ~_master /\ PkgNoIdentifier(last.in))
    => /\ ctx = last.in
       /\ last.gen = 0

====
